---- MODULE Spec2Model ----
(***************************************************************************)
(* Job posting and discovery service: the request handlers of              *)
(* controllers/jobsController.js over the Job collection (models/Job.js),  *)
(* the store queries of services/jobService.js and the postcode resolver   *)
(* of services/geoService.js.                                              *)
(*                                                                         *)
(* Every handler is cut at its awaits on the store: between two store      *)
(* round trips of one request, other requests may run.  The call to the    *)
(* postcode service reads no shared state, so it is taken together with    *)
(* the store round trip that follows or precedes it.                       *)
(***************************************************************************)
EXTENDS Integers, Sequences, FiniteSets, TLC

(***************************************************************************)
(* Bounds of the model.                                                    *)
(***************************************************************************)
MaxJobs == 2
MaxReqs == 3
MaxInFlight == 2
MaxTime == 1

Workers == 1..MaxInFlight
JobIds == 1..MaxJobs

(***************************************************************************)
(* JavaScript values.  null is a record of its own shape, so that it can   *)
(* be told from every document.  A JavaScript object is a function from    *)
(* its keys; a key that is not set is not in its DOMAIN.                   *)
(***************************************************************************)
Null == [null |-> TRUE]
IsNull(x) == "null" \in DOMAIN x

Has(obj, key) == key \in DOMAIN obj

\* {}: the object with no keys
EmptyObj == <<>>

\* { ...a, ...b }: the keys of b replace those of a, whole values at a time
Spread(a, b) ==
  [k \in (DOMAIN a) \cup (DOMAIN b) |-> IF k \in DOMAIN b THEN b[k] ELSE a[k]]

(***************************************************************************)
(* Postcodes are sequences of characters; " " is the whitespace.           *)
(***************************************************************************)
RECURSIVE TrimStart(_)
TrimStart(s) ==
  IF s # <<>> /\ Head(s) = " " THEN TrimStart(Tail(s)) ELSE s

RECURSIVE TrimEnd(_)
TrimEnd(s) ==
  IF s # <<>> /\ s[Len(s)] = " " THEN TrimEnd(SubSeq(s, 1, Len(s) - 1)) ELSE s

\* String.prototype.trim
Trim(s) == TrimEnd(TrimStart(s))

(***************************************************************************)
(* The postcode service (api.postcodes.io).  It knows two postcodes, looks *)
(* them up without regard to case, and answers with the coordinate and the *)
(* postcode in its canonical (upper case) form.                            *)
(***************************************************************************)
UpperChar(c) == CASE c = "a" -> "A" [] c = "b" -> "B" [] OTHER -> c

UpperCase(s) == [i \in 1..Len(s) |-> UpperChar(s[i])]

ServiceRecords ==
  { [postcode |-> <<"A">>, longitude |-> 0, latitude |-> 0],
    [postcode |-> <<"B">>, longitude |-> 0, latitude |-> 7] }

\* GET /postcodes/<encoded>: the body of the answer, Null when the request throws
\* (a 404 for an unknown postcode, or the network being down)
ServiceGet(path, net) ==
  IF net = "down" THEN Null
  ELSE IF \E r \in ServiceRecords : r.postcode = UpperCase(path)
       THEN [status |-> 200,
             result |-> CHOOSE r \in ServiceRecords : r.postcode = UpperCase(path)]
       ELSE Null

Net == {"up", "down"}

\* the states of the service that matter to a request: none when it makes no call
NetFor(called) == IF called THEN Net ELSE {"up"}

(***************************************************************************)
(* services/geoService.js                                                  *)
(***************************************************************************)
\* a resolver that answers a failed lookup with a default point
geocodePostcodeDefault(postcode, net) ==
  LET trimmed == Trim(postcode)
      data == ServiceGet(trimmed, net)
  IN IF ~IsNull(data) /\ data.status = 200 /\ ~IsNull(data.result)
     THEN [coordinates |-> <<data.result.longitude, data.result.latitude>>,
           postcode |-> trimmed]
     ELSE [coordinates |-> <<0, 0>>, postcode |-> trimmed]

\* a resolver that hands back the postcode as the caller wrote it
geocodePostcodeRaw(postcode, net) ==
  IF postcode = <<>> THEN Null
  ELSE LET data == ServiceGet(Trim(postcode), net)
       IN IF ~IsNull(data) /\ data.status = 200 /\ ~IsNull(data.result)
          THEN [coordinates |-> <<data.result.longitude, data.result.latitude>>,
                postcode |-> postcode]
          ELSE Null

\* geocodePostcode: null for a falsy (empty) postcode without calling the service;
\* otherwise one GET for the trimmed postcode, and the coordinate of the answer
\* together with the trimmed input
geocodePostcode(postcode, net) ==
  IF postcode = <<>> THEN Null
  ELSE LET trimmed == Trim(postcode)
           data == ServiceGet(trimmed, net)
       IN IF ~IsNull(data) /\ data.status = 200 /\ ~IsNull(data.result)
          THEN [coordinates |-> <<data.result.longitude, data.result.latitude>>,
                postcode |-> trimmed]
          ELSE Null

(***************************************************************************)
(* models/Job.js: the Job schema                                           *)
(***************************************************************************)
StatusEnum == {"open", "accepted", "completed", "cancelled"}

\* new Job(data): the schema's defaults under the caller's data, the identity and
\* both timestamps
NewJob(id, data, time) ==
  Spread([status |-> "open", tradesmanId |-> Null, createdAt |-> time,
          updatedAt |-> time],
         Spread(data, [_id |-> id]))

\* validators that leave out the enum of status
UpdateValidNoEnum(updates) ==
  (Has(updates, "location") /\ Has(updates.location, "type"))
    => updates.location.type = "Point"

\* the validators an update runs (runValidators): only on the paths the update sets
UpdateValid(updates) ==
  /\ Has(updates, "status") => updates.status \in StatusEnum
  /\ (Has(updates, "location") /\ Has(updates.location, "type"))
       => updates.location.type = "Point"

(***************************************************************************)
(* The Job collection: the documents of the store, as a set.               *)
(***************************************************************************)
Collection(store) == {store[i] : i \in {j \in DOMAIN store : ~IsNull(store[j])}}

\* an equality filter: every key of the filter is set in the document to that value
Matches(filter, doc) ==
  \A k \in DOMAIN filter : Has(doc, k) /\ doc[k] = filter[k]

Abs(x) == IF x < 0 THEN -x ELSE x

\* distance between two [lng, lat] points, in metres; one unit of the grid is 1 km
DistanceMeters(a, b) == 1000 * (Abs(a[1] - b[1]) + Abs(a[2] - b[2]))

\* the $geoNear stage: the documents matching the query within maxDistance of the
\* point
GeoNear(coll, coordinates, maxDistance, filter) ==
  {d \in coll : /\ Matches(filter, d)
                /\ Has(d, "location") /\ Has(d.location, "coordinates")
                /\ DistanceMeters(d.location.coordinates, coordinates) <= maxDistance}

\* sort({ createdAt: -1 }): every order of the documents that is newest first; the
\* store fixes no order among documents created at the same time
SortNewestFirst(docs) ==
  {o \in [1..Cardinality(docs) -> docs] :
     /\ \A i, j \in DOMAIN o : i # j => o[i] # o[j]
     /\ \A i, j \in DOMAIN o : i < j => o[i].createdAt >= o[j].createdAt}

Min(a, b) == IF a < b THEN a ELSE b

Max(a, b) == IF a > b THEN a ELSE b

\* a limit that takes one document more
SkipLimitOneMore(o, skip, limit) == SubSeq(o, skip + 1, Min(Len(o), skip + limit + 1))

\* skip(skip) then limit(limit)
SkipLimit(o, skip, limit) == SubSeq(o, skip + 1, Min(Len(o), skip + limit))

ListFields == {"_id", "title", "description", "status", "customerId", "location",
               "category", "createdAt"}

\* the projection of both list queries
Project(doc) == [k \in (DOMAIN doc) \cap ListFields |-> doc[k]]

ProjectAll(o) == [i \in DOMAIN o |-> Project(o[i])]

(***************************************************************************)
(* services/jobService.js: each query gives the set of results the store   *)
(* may return.                                                             *)
(***************************************************************************)
\* a find that sorts oldest first
findJobsOldestFirst(coll, filter, skip, limit) ==
  {ProjectAll(SkipLimit(o, skip, limit)) :
     o \in {r \in [1..Cardinality({d \in coll : Matches(filter, d)})
                     -> {d \in coll : Matches(filter, d)}] :
              /\ \A i, j \in DOMAIN r : i # j => r[i] # r[j]
              /\ \A i, j \in DOMAIN r : i < j => r[i].createdAt <= r[j].createdAt}}

findJobs(coll, filter, skip, limit) ==
  {ProjectAll(SkipLimit(o, skip, limit)) :
     o \in SortNewestFirst({d \in coll : Matches(filter, d)})}

findJobsNearLocation(coll, coordinates, maxDistance, filter, skip, limit) ==
  {ProjectAll(SkipLimit(o, skip, limit)) :
     o \in SortNewestFirst(GeoNear(coll, coordinates, maxDistance, filter))}

countJobs(coll, filter) == Cardinality({d \in coll : Matches(filter, d)})

\* a count that leaves the query filter out of the $geoNear stage
countJobsNearLocationNoFilter(coll, coordinates, maxDistance, filter) ==
  Cardinality(GeoNear(coll, coordinates, maxDistance, EmptyObj))

countJobsNearLocation(coll, coordinates, maxDistance, filter) ==
  Cardinality(GeoNear(coll, coordinates, maxDistance, filter))

findJobById(store, id) == IF id \in DOMAIN store THEN store[id] ELSE Null

\* a delete that leaves the document in the store
deleteJobByIdKeeps(store, id) == store

\* findByIdAndDelete(id): the store without the document
deleteJobById(store, id) == [store EXCEPT ![id] = Null]

\* findByIdAndUpdate(id, { ...updates, updatedAt: Date.now() }): every key of the
\* update replaces the document's value of that key, a nested object as a whole
UpdatedDoc(doc, updates, time) == Spread(doc, Spread(updates, [updatedAt |-> time]))

(***************************************************************************)
(* Requests.                                                               *)
(***************************************************************************)
\* postcodes a caller may send: a known one, a known one in lower case with
\* surrounding whitespace, and one the service does not know
RawPostcodes == { <<"A">>, <<" ", "b", " ">>, <<"Z">> }

Categories == {"plumbing", "other"}

\* POST bodies: title, description, category and location.postcode, and one that
\* also carries an image
CreateBodies ==
  { [title |-> "t1", description |-> "d1", category |-> c,
     location |-> [postcode |-> p]] : c \in Categories, p \in RawPostcodes }
  \cup { [title |-> "t1", description |-> "d1", category |-> "plumbing",
          location |-> [postcode |-> <<"A">>], image |-> "u1"] }

\* GET queries: category, location and radius, page and limit are all optional
Queries ==
  { EmptyObj,
    [category |-> "plumbing"],
    [page |-> 2, limit |-> 1],
    [page |-> 1, limit |-> 2],
    [location |-> <<"A">>],
    [location |-> <<"A">>, radius |-> 1],
    [location |-> <<"A">>, radius |-> 1, page |-> 1, limit |-> 1],
    [location |-> <<"Z">>],
    [location |-> <<"Z">>, page |-> 1, limit |-> 1],
    [category |-> "plumbing", location |-> <<"A">>, page |-> 2, limit |-> 1],
    [category |-> "plumbing", location |-> <<"Z">>] }

\* PUT bodies: any subset of the fields; a location with a postcode, or with a
\* GeoJSON point and no postcode
UpdateBodies ==
  { [status |-> "accepted"],
    [status |-> "archived"],
    [title |-> "t2", category |-> "other"],
    [location |-> [postcode |-> <<" ", "b", " ">>]],
    [location |-> [postcode |-> <<"A">>]],
    [title |-> "t2", status |-> "cancelled", location |-> [postcode |-> <<"Z">>]],
    [location |-> [type |-> "Point", coordinates |-> <<0, 2>>]] }

\* the bodies that decide what a list call sees: the category, the place, the
\* status and a location with no postcode
ListedCreateBodies ==
  { [title |-> "t1", description |-> "d1", category |-> "plumbing",
     location |-> [postcode |-> <<"A">>]],
    [title |-> "t1", description |-> "d1", category |-> "other",
     location |-> [postcode |-> <<"A">>]],
    [title |-> "t1", description |-> "d1", category |-> "plumbing",
     location |-> [postcode |-> <<" ", "b", " ">>]] }

ListedUpdateBodies ==
  { [status |-> "accepted"],
    [location |-> [type |-> "Point", coordinates |-> <<0, 2>>]] }

\* identities a caller may send: 0 stands for a string that is no ObjectId
RequestIds == 0..MaxJobs

\* mongoose.Types.ObjectId.isValid
IsValidObjectId(id) == id >= 1

VARIABLES
  jobs,        \* the Job collection: identity -> document, Null when there is none
  nextId,      \* the next identity the store assigns
  now,         \* Date.now()
  pc,          \* per worker: where its request's handler stands
  req,         \* per worker: the request it serves
  local,       \* per worker: the handler's local variables
  res,         \* per worker: the response sent
  served,      \* number of requests accepted so far
  deleted,     \* per identity: number of "Job deleted successfully" responses sent
  stale        \* per worker: the store was written since its handler last read it

vars == <<jobs, nextId, now, pc, req, local, res, served, deleted, stale>>

Init ==
  /\ jobs = [i \in JobIds |-> Null]
  /\ nextId = 1
  /\ now = 0
  /\ pc = [w \in Workers |-> "idle"]
  /\ req = [w \in Workers |-> Null]
  /\ local = [w \in Workers |-> Null]
  /\ res = [w \in Workers |-> Null]
  /\ served = 0
  /\ deleted = [i \in JobIds |-> 0]
  /\ stale = [w \in Workers |-> FALSE]

\* a handler runs up to its next await once the responses already written have left
Quiet == \A v \in Workers : pc[v] # "done"

\* a request arrives and is given to a free worker (the first one: workers are alike)
Accept(w) ==
  /\ Quiet
  /\ pc[w] = "idle"
  /\ \A v \in Workers : v < w => pc[v] # "idle"
  /\ served < MaxReqs
  /\ served' = served + 1

\* a write to the store lands under every handler that has read it and not answered
Written == stale' = [v \in Workers |-> pc[v] = "count"]

\* Date.now(): the clock never runs backwards
Times == now..MaxTime

\* the handler of w sends its response
Send(w, response) ==
  /\ res' = [res EXCEPT ![w] = response]
  /\ pc' = [pc EXCEPT ![w] = "done"]

(***************************************************************************)
(* POST /api/jobs                                                          *)
(***************************************************************************)
\* the data postJobs hands to createJob
CreateData(body, geo) ==
  Spread([title |-> body.title, description |-> body.description,
          category |-> body.category, customerId |-> "mock-customer-id",
          location |-> Spread([type |-> "Point"], geo)],
         IF Has(body, "image") THEN [imageUrl |-> body.image] ELSE EmptyObj)

PostcodeNotFound(postcode) ==
  [status |-> 400, message |-> "Postcode not found", postcode |-> postcode]

postJobsOf(w, bodies) ==
  /\ Accept(w)
  /\ \E body \in bodies, net \in Net, time \in Times :
       LET geo == geocodePostcode(body.location.postcode, net) IN
       /\ req' = [req EXCEPT ![w] = [op |-> "postJobs", body |-> body, net |-> net]]
       /\ local' = [local EXCEPT ![w] = [geo |-> geo]]
       /\ IF IsNull(geo)
          THEN /\ Send(w, PostcodeNotFound(body.location.postcode))
               /\ time = now
               /\ UNCHANGED <<jobs, nextId, now, stale>>
          ELSE /\ nextId <= MaxJobs
               /\ Written
               /\ now' = time
               /\ jobs' = [jobs EXCEPT ![nextId] = NewJob(nextId, CreateData(body, geo), time)]
               /\ nextId' = nextId + 1
               /\ Send(w, [status |-> 201, message |-> "Job posted successfully",
                           jobId |-> nextId])
  /\ UNCHANGED deleted

postJobs(w) == postJobsOf(w, CreateBodies)

postJobsListed(w) == postJobsOf(w, ListedCreateBodies)

(***************************************************************************)
(* GET /api/jobs                                                           *)
(***************************************************************************)
\* a query parameter, or its default
Param(query, key, default) == IF Has(query, key) THEN query[key] ELSE default

DefaultRadius == 5
DefaultPage == 1
DefaultLimit == 10

\* a filter that leaves the status out
ListFilterAnyStatus(query) ==
  IF Has(query, "category") THEN [category |-> query.category] ELSE EmptyObj

\* the base filter, narrowed by the category when one is given
ListFilter(query) ==
  IF Has(query, "category")
  THEN [status |-> "open", category |-> query.category]
  ELSE [status |-> "open"]

ListSkip(query) ==
  (Param(query, "page", DefaultPage) - 1) * Param(query, "limit", DefaultLimit)

\* whether the list takes the spatial path
Spatial(query, geo) == Has(query, "location") /\ ~IsNull(geo)

\* the page query of the path taken
PageQuery(coll, query, geo) ==
  IF Spatial(query, geo)
  THEN findJobsNearLocation(coll, geo.coordinates,
                            Param(query, "radius", DefaultRadius) * 1000,
                            ListFilter(query), ListSkip(query),
                            Param(query, "limit", DefaultLimit))
  ELSE findJobs(coll, ListFilter(query), ListSkip(query),
                Param(query, "limit", DefaultLimit))

\* the count query of the path taken
CountQuery(coll, query, geo) ==
  IF Spatial(query, geo)
  THEN countJobsNearLocation(coll, geo.coordinates,
                             Param(query, "radius", DefaultRadius) * 1000,
                             ListFilter(query))
  ELSE countJobs(coll, ListFilter(query))

\* location: j.location.postcode, a key the JSON drops when it is undefined
LocationView(j) ==
  IF Has(j, "location") /\ Has(j.location, "postcode")
  THEN [location |-> j.location.postcode]
  ELSE EmptyObj

\* one item of the list response
JobSummary(j) ==
  Spread([id |-> j._id, title |-> j.title, description |-> j.description,
          status |-> j.status, customerId |-> j.customerId,
          category |-> j.category, createdAt |-> j.createdAt],
         LocationView(j))

\* Math.ceil(total / limit)
Pages(total, limit) == (total + limit - 1) \div limit

ListResponse(query, page, totalCount) ==
  [status |-> 200,
   jobs |-> [i \in DOMAIN page |-> JobSummary(page[i])],
   pagination |-> [page |-> Param(query, "page", DefaultPage),
                   limit |-> Param(query, "limit", DefaultLimit),
                   total |-> totalCount,
                   pages |-> Pages(totalCount, Param(query, "limit", DefaultLimit))]]

\* the request arrives, the postcode (if any) is resolved and the page is read.
\* List calls only read the store and do not affect one another, so one list call
\* at a time stands between its two reads, among the writes of the other workers.
getJobsPage(w) ==
  /\ Accept(w)
  /\ \A v \in Workers : pc[v] # "count"
  /\ \E query \in Queries : \E net \in NetFor(Has(query, "location")) :
       LET geo == IF Has(query, "location")
                  THEN geocodePostcode(query.location, net) ELSE Null
       IN \E page \in PageQuery(Collection(jobs), query, geo) :
            /\ req' = [req EXCEPT ![w] = [op |-> "getJobs", query |-> query, net |-> net]]
            /\ local' = [local EXCEPT ![w] = [geo |-> geo, jobs |-> page]]
  /\ pc' = [pc EXCEPT ![w] = "count"]
  /\ stale' = [stale EXCEPT ![w] = FALSE]
  /\ UNCHANGED <<jobs, nextId, now, res, deleted>>

\* the total is counted and the response is sent
getJobsCount(w) ==
  /\ Quiet
  /\ pc[w] = "count"
  /\ LET totalCount == CountQuery(Collection(jobs), req[w].query, local[w].geo)
     IN Send(w, ListResponse(req[w].query, local[w].jobs, totalCount))
  /\ UNCHANGED <<jobs, nextId, now, req, local, served, deleted, stale>>

(***************************************************************************)
(* PUT /api/jobs/:id                                                       *)
(***************************************************************************)
\* updates.location?.postcode, when it is truthy
NewPostcode(updates) ==
  IF Has(updates, "location") /\ Has(updates.location, "postcode")
     /\ updates.location.postcode # <<>>
  THEN updates.location.postcode ELSE <<>>

\* updates whose location takes the resolved postcode and not the coordinate
WithLocationPostcodeOnly(updates, geo) ==
  Spread(updates, [location |-> [type |-> "Point", postcode |-> geo.postcode]])

\* the updates with the location replaced by the resolved GeoJSON point
WithLocation(updates, geo) ==
  Spread(updates, [location |-> Spread([type |-> "Point"], geo)])

UpdateResponse(job) ==
  [status |-> 200, message |-> "Job updated successfully",
   job |-> Spread([id |-> job._id, title |-> job.title,
                   description |-> job.description, status |-> job.status,
                   customerId |-> job.customerId, category |-> job.category],
                  LocationView(job))]

\* the request arrives, the job is looked up and a new postcode is resolved
updateJobLookupOf(w, ids, bodies) ==
  /\ Accept(w)
  /\ \E id \in ids, body \in bodies : \E net \in NetFor(NewPostcode(body) # <<>>) :
       LET existingJob == findJobById(jobs, id)
           geo == geocodePostcode(NewPostcode(body), net)
       IN /\ req' = [req EXCEPT ![w] = [op |-> "updateJob", id |-> id, body |-> body,
                                        net |-> net]]
          /\ IF ~IsValidObjectId(id)
             THEN /\ Send(w, [status |-> 400, message |-> "Invalid job ID format"])
                  /\ UNCHANGED local
             ELSE IF IsNull(existingJob)
             THEN /\ Send(w, [status |-> 404, message |-> "Job not found"])
                  /\ UNCHANGED local
             ELSE IF NewPostcode(body) # <<>> /\ IsNull(geo)
             THEN /\ Send(w, PostcodeNotFound(NewPostcode(body)))
                  /\ UNCHANGED local
             ELSE /\ local' = [local EXCEPT ![w] =
                       [updates |-> IF NewPostcode(body) # <<>>
                                    THEN WithLocation(body, geo) ELSE body]]
                  /\ pc' = [pc EXCEPT ![w] = "write"]
                  /\ UNCHANGED res
  /\ UNCHANGED <<jobs, nextId, now, deleted, stale>>

updateJobLookup(w) == updateJobLookupOf(w, RequestIds, UpdateBodies)

updateJobLookupListed(w) == updateJobLookupOf(w, JobIds, ListedUpdateBodies)

\* updateJobById, and the response built from the document it returns; a failed
\* validation, or the null it returns for a missing job, ends in the catch block
updateJobWrite(w) ==
  /\ Quiet
  /\ pc[w] = "write"
  /\ LET id == req[w].id
         updates == local[w].updates
     IN IF UpdateValid(updates) /\ ~IsNull(jobs[id])
        THEN \E time \in Times :
               /\ now' = time
               /\ Written
               /\ jobs' = [jobs EXCEPT ![id] = UpdatedDoc(jobs[id], updates, time)]
               /\ Send(w, UpdateResponse(UpdatedDoc(jobs[id], updates, time)))
        ELSE /\ Send(w, [status |-> 500, message |-> "Failed to update job"])
             /\ UNCHANGED <<jobs, now, stale>>
  /\ UNCHANGED <<nextId, req, local, served, deleted>>

(***************************************************************************)
(* DELETE /api/jobs/:id                                                    *)
(***************************************************************************)
\* the requests deleteJob makes to the image store for the job it deleted: none
imageStoreRequests(job) == <<>>

deleteJobOf(w, ids) ==
  /\ Accept(w)
  /\ \E id \in ids :
       LET job == findJobById(jobs, id) IN
       /\ req' = [req EXCEPT ![w] = [op |-> "deleteJob", id |-> id]]
       /\ IF ~IsValidObjectId(id)
          THEN /\ Send(w, [status |-> 400, message |-> "Invalid job ID format"])
               /\ UNCHANGED <<jobs, deleted, stale, local>>
          ELSE IF IsNull(job)
          THEN /\ Send(w, [status |-> 404, message |-> "Job not found"])
               /\ UNCHANGED <<jobs, deleted, stale, local>>
          ELSE /\ jobs' = deleteJobById(jobs, id)
               /\ Written
               /\ deleted' = [deleted EXCEPT ![id] = @ + 1]
               /\ local' = [local EXCEPT ![w] =
                              [job |-> [k \in (DOMAIN job) \cap {"imageUrl"} |-> job[k]],
                               imageRequests |-> imageStoreRequests(job)]]
               /\ Send(w, [status |-> 200, message |-> "Job deleted successfully"])
  /\ UNCHANGED <<nextId, now>>

deleteJob(w) == deleteJobOf(w, RequestIds)

deleteJobListed(w) == deleteJobOf(w, JobIds)

\* the response has left: the worker is free for the next request
Finish(w) ==
  /\ pc[w] = "done"
  /\ pc' = [pc EXCEPT ![w] = "idle"]
  /\ req' = [req EXCEPT ![w] = Null]
  /\ local' = [local EXCEPT ![w] = Null]
  /\ res' = [res EXCEPT ![w] = Null]
  /\ stale' = [stale EXCEPT ![w] = FALSE]
  /\ UNCHANGED <<jobs, nextId, now, served, deleted>>

(***************************************************************************)
(* The whole service, with the bodies that matter to a list call.          *)
(***************************************************************************)
Next ==
  \/ \E w \in Workers : postJobsListed(w)
  \/ \E w \in Workers : getJobsPage(w)
  \/ \E w \in Workers : getJobsCount(w)
  \/ \E w \in Workers : updateJobLookupListed(w)
  \/ \E w \in Workers : updateJobWrite(w)
  \/ \E w \in Workers : deleteJobListed(w)
  \/ \E w \in Workers : Finish(w)

Spec == Init /\ [][Next]_vars

(***************************************************************************)
(* The requests that write: create, update and delete, with every body and *)
(* every identity.                                                         *)
(***************************************************************************)
NextLifecycle ==
  \/ \E w \in Workers : postJobs(w)
  \/ \E w \in Workers : updateJobLookup(w)
  \/ \E w \in Workers : updateJobWrite(w)
  \/ \E w \in Workers : deleteJob(w)
  \/ \E w \in Workers : Finish(w)

SpecLifecycle == Init /\ [][NextLifecycle]_vars

(***************************************************************************)
(* The resolver on its own: geocodePostcode called with any string.        *)
(***************************************************************************)
MaxPostcodeLen == 2

PostcodeChars == {" ", "A", "b", "Z"}

\* the strings a caller may hand to geocodePostcode, the empty one included
PostcodeStrings ==
  UNION {[1..n -> PostcodeChars] : n \in 0..MaxPostcodeLen}

\* the paths geocodePostcode requests from the postcode service, in order: none
\* for a falsy postcode, else the trimmed postcode, once
geocodeRequests(postcode) ==
  IF postcode = <<>> THEN <<>> ELSE <<Trim(postcode)>>

\* one call of geocodePostcode: the string, the state of the service, the
\* requests made and the value returned
geocodeCall(w) ==
  /\ Accept(w)
  /\ \E postcode \in PostcodeStrings, net \in Net :
       /\ req' = [req EXCEPT ![w] = [op |-> "geocodePostcode",
                                    postcode |-> postcode, net |-> net]]
       /\ local' = [local EXCEPT ![w] = [requests |-> geocodeRequests(postcode)]]
       /\ Send(w, geocodePostcode(postcode, net))
  /\ UNCHANGED <<jobs, nextId, now, deleted, stale>>

NextResolver ==
  \/ \E w \in Workers : geocodeCall(w)
  \/ \E w \in Workers : Finish(w)

SpecResolver == Init /\ [][NextResolver]_vars

(***************************************************************************)
(* Properties.                                                             *)
(***************************************************************************)
\* worker w has answered a request of kind op
Answered(w, op) == pc[w] = "done" /\ req[w].op = op

\* the postcode service gives no coordinate for this postcode at this time
Unresolvable(postcode, net) ==
  postcode = <<>> \/ IsNull(ServiceGet(Trim(postcode), net))

\* the coordinate the postcode service gives for this postcode
ServiceCoordinates(postcode) ==
  LET r == ServiceGet(Trim(postcode), "up").result
  IN <<r.longitude, r.latitude>>

\* C1: a create request whose postcode the resolver cannot resolve (no match, or
\* the service unreachable) writes no job record, and is answered with a
\* rejection that names the postcode.
C1_UnresolvableCreateWritesNothing ==
  [][\A w \in Workers :
       (/\ pc[w] = "idle" /\ pc'[w] # "idle"
        /\ req'[w].op = "postJobs"
        /\ Unresolvable(req'[w].body.location.postcode, req'[w].net))
       => /\ jobs' = jobs
          /\ nextId' = nextId
          /\ pc'[w] = "done"
          /\ res'[w].status = 400
          /\ res'[w].message = "Postcode not found"
          /\ res'[w].postcode = req'[w].body.location.postcode]_vars

C1_Witness ==
  \E w \in Workers :
    /\ Answered(w, "postJobs")
    /\ Unresolvable(req[w].body.location.postcode, req[w].net)
    /\ res[w].status = 400
    /\ Collection(jobs) # {}

\* the record a create request has just written
Created(w) == jobs[res[w].jobId]

\* the postcode in the canonical form the postcode service answers with
ServicePostcode(postcode) == ServiceGet(Trim(postcode), "up").result.postcode

C3_LocationComplete ==
  \A d \in Collection(jobs) :
    /\ Has(d, "location")
    /\ Has(d.location, "coordinates")
    /\ Has(d.location, "postcode")

C3_Witness ==
  \E w \in Workers :
    /\ Answered(w, "updateJob") /\ res[w].status = 200
    /\ Has(req[w].body, "location") /\ ~Has(req[w].body.location, "postcode")

\* the stored jobs a list call asks for: open, and of the category when one is given
Wanted(query) ==
  {d \in Collection(jobs) :
     /\ d.status = "open"
     /\ Has(query, "category") => d.category = query.category}

\* the list call of w took the spatial path: it gave a postcode and the service
\* resolved it
TookSpatial(w) ==
  Has(req[w].query, "location") /\ ~Unresolvable(req[w].query.location, req[w].net)

\* the wanted jobs within the radius of the resolved postcode
WantedNear(query) ==
  {d \in Wanted(query) :
     DistanceMeters(d.location.coordinates, ServiceCoordinates(query.location))
       <= Param(query, "radius", DefaultRadius) * 1000}

\* C4 (as claimed): pagination.total is the number of stored open jobs (of the
\* category, when given), whichever path the list call took.
C4_TotalOnEveryPath ==
  \A w \in Workers :
    Answered(w, "getJobs")
    => res[w].pagination.total = Cardinality(Wanted(req[w].query))

\* C4 (as amended): without a postcode, or with one that failed to resolve,
\* pagination.total is the number of stored open jobs (of the category, when
\* given); on the spatial path it is the number of those within the radius of the
\* resolved postcode.
C4_TotalByPath ==
  \A w \in Workers :
    Answered(w, "getJobs")
    => /\ res[w].status = 200
       /\ res[w].pagination.total =
            IF TookSpatial(w) THEN Cardinality(WantedNear(req[w].query))
            ELSE Cardinality(Wanted(req[w].query))

C4_Witness ==
  \E w \in Workers :
    /\ Answered(w, "getJobs") /\ TookSpatial(w)
    /\ res[w].pagination.total = 1
    /\ Cardinality(Wanted(req[w].query)) = 2

\* page, limit and total as the response of w reports them
PageOf(w) == res[w].pagination.page

LimitOf(w) == res[w].pagination.limit

TotalOf(w) == res[w].pagination.total

\* min(n, max(0, total - (p-1)*n))
ExpectedItems(w) == Min(LimitOf(w), Max(0, TotalOf(w) - (PageOf(w) - 1) * LimitOf(w)))

\* C5 (as claimed): the number of items of every list response is
\* min(n, max(0, total - (p-1)*n)), also when other requests write to the store
\* between the page query and the count query.
C5_ItemCountAlways ==
  \A w \in Workers :
    Answered(w, "getJobs") => Len(res[w].jobs) = ExpectedItems(w)

\* C5 (as amended): the number of items of a list response is
\* min(n, max(0, total - (p-1)*n)) whenever no create, update or delete wrote to
\* the store between the call's page query and its count query.
C5_ItemCountUndisturbed ==
  \A w \in Workers :
    (Answered(w, "getJobs") /\ ~stale[w]) => Len(res[w].jobs) = ExpectedItems(w)

C5_Witness ==
  \E w \in Workers :
    /\ Answered(w, "getJobs") /\ ~stale[w]
    /\ PageOf(w) = 2 /\ LimitOf(w) = 1 /\ TotalOf(w) = 2
    /\ Len(res[w].jobs) = 1

\* the newest-first orders of the wanted jobs
WantedOrders(query) ==
  {o \in [1..Cardinality(Wanted(query)) -> Wanted(query)] :
     /\ \A i, j \in DOMAIN o : i # j => o[i] # o[j]
     /\ \A i, j \in DOMAIN o : i < j => o[i].createdAt >= o[j].createdAt}

\* the identities of the items of a page, in order
Ids(items) == [i \in DOMAIN items |-> items[i].id]

\* the identities of a page of the wanted jobs: skip (p-1)*n, then at most n
WantedPages(w) ==
  {[i \in 1..ExpectedItems(w) |-> o[(PageOf(w) - 1) * LimitOf(w) + i]._id] :
     o \in WantedOrders(req[w].query)}

\* C6: a list call whose postcode cannot be resolved is answered without an
\* error: pagination.total is the plain count of the wanted jobs and, when no
\* write came between its two queries, its items are a page of the wanted jobs
\* newest first under the same skip and limit, as for a call with no postcode.
C6_FallbackIsPlainList ==
  \A w \in Workers :
    (/\ Answered(w, "getJobs")
     /\ Has(req[w].query, "location")
     /\ Unresolvable(req[w].query.location, req[w].net))
    => /\ res[w].status = 200
       /\ TotalOf(w) = Cardinality(Wanted(req[w].query))
       /\ ~stale[w] => Ids(res[w].jobs) \in WantedPages(w)

C6_Witness ==
  \E w \in Workers :
    /\ Answered(w, "getJobs")
    /\ Has(req[w].query, "location")
    /\ Unresolvable(req[w].query.location, req[w].net)
    /\ Len(res[w].jobs) = 1
    /\ TotalOf(w) = 2

\* C7: every item of every list response is an open job, of the category asked
\* for when one is given.
C7_OnlyOpenOfCategory ==
  \A w \in Workers :
    Answered(w, "getJobs")
    => \A i \in DOMAIN res[w].jobs :
         /\ res[w].jobs[i].status = "open"
         /\ Has(req[w].query, "category")
              => res[w].jobs[i].category = req[w].query.category

C7_Witness ==
  \E w \in Workers :
    /\ Answered(w, "getJobs")
    /\ Has(req[w].query, "category")
    /\ Len(res[w].jobs) = 1
    /\ Cardinality(Collection(jobs)) = 2

\* C8: of all the delete requests on one identity at most one is answered
\* Deleted: a delete answered Deleted is the first such, and a delete of a
\* well-formed identity already deleted is answered NotFound.
C8_DeletedAtMostOnce ==
  /\ \A id \in JobIds : deleted[id] <= 1
  /\ \A w \in Workers :
       (Answered(w, "deleteJob") /\ IsValidObjectId(req[w].id))
       => /\ res[w].status \in {200, 404}
          /\ res[w].status = 200 => deleted[req[w].id] = 1
          /\ IsNull(jobs[req[w].id])

C8_Witness ==
  \E w \in Workers :
    /\ Answered(w, "deleteJob") /\ IsValidObjectId(req[w].id)
    /\ res[w].status = 404
    /\ deleted[req[w].id] = 1

\* C9: after an update that supplies a resolvable new postcode has succeeded, the
\* job's location is exactly the GeoJSON type, the coordinate pair resolved for
\* the new postcode and the new postcode.
C9_LocationReplaced ==
  \A w \in Workers :
    (/\ Answered(w, "updateJob") /\ res[w].status = 200
     /\ NewPostcode(req[w].body) # <<>>)
    => jobs[req[w].id].location =
         [type |-> "Point",
          coordinates |-> ServiceCoordinates(NewPostcode(req[w].body)),
          postcode |-> Trim(NewPostcode(req[w].body))]

C9_Witness ==
  \E w \in Workers :
    /\ Answered(w, "updateJob") /\ res[w].status = 200
    /\ NewPostcode(req[w].body) = <<"A">>
    /\ jobs[req[w].id].createdAt < jobs[req[w].id].updatedAt
    /\ jobs[req[w].id].location.coordinates = <<0, 0>>

\* C10: an update request on an existing job whose new postcode cannot be
\* resolved is rejected with a message naming the postcode, and writes nothing:
\* the store is as it was, and the request is over.
C10_UnresolvableUpdateWritesNothing ==
  [][\A w \in Workers :
       (/\ pc[w] = "idle" /\ pc'[w] # "idle"
        /\ req'[w].op = "updateJob"
        /\ IsValidObjectId(req'[w].id)
        /\ ~IsNull(jobs[req'[w].id])
        /\ NewPostcode(req'[w].body) # <<>>
        /\ Unresolvable(NewPostcode(req'[w].body), req'[w].net))
       => /\ jobs' = jobs
          /\ pc'[w] = "done"
          /\ res'[w].status = 400
          /\ res'[w].message = "Postcode not found"
          /\ res'[w].postcode = NewPostcode(req'[w].body)]_vars

C10_Witness ==
  \E w \in Workers :
    /\ Answered(w, "updateJob")
    /\ res[w].status = 400 /\ res[w].message = "Postcode not found"
    /\ Has(req[w].body, "title") /\ Has(req[w].body, "status")
    /\ \E d \in Collection(jobs) :
         d._id = req[w].id /\ d.title = "t1" /\ d.status = "open"

\* the list call of w has read its page on the spatial path, and the store is as
\* that query saw it
SpatialPageRead(w) ==
  /\ pc[w] = "count" /\ ~stale[w]
  /\ TookSpatial(w)

\* the pages a list call with the same category, page and limit gets from the
\* same store on the fallback path
FallbackPages(w) == PageQuery(Collection(jobs), req[w].query, Null)

\* the place of the job with this identity in a page, 0 when it is not in it
Place(page, id) ==
  IF \E i \in DOMAIN page : page[i]._id = id
  THEN CHOOSE i \in DOMAIN page : page[i]._id = id
  ELSE 0

\* the identities in both pages
InBoth(p, q) ==
  {id \in JobIds : Place(p, id) > 0 /\ Place(q, id) > 0}

\* C11 (as claimed): the jobs in both a spatial page and a fallback page of the
\* same store, category, page and limit are in the same relative order in both,
\* also when jobs share a creation time.
C11_SameOrderWithTies ==
  \A w \in Workers :
    SpatialPageRead(w)
    => \A q \in FallbackPages(w) :
         \A a, b \in InBoth(local[w].jobs, q) :
           Place(local[w].jobs, a) < Place(local[w].jobs, b)
             => Place(q, a) < Place(q, b)

\* C11 (as amended): of two jobs with different creation times that are in both a
\* spatial page and a fallback page of the same store, category, page and limit,
\* the newer one comes first in both pages.
C11_SameOrderByCreation ==
  \A w \in Workers :
    SpatialPageRead(w)
    => \A q \in FallbackPages(w) :
         \A a, b \in InBoth(local[w].jobs, q) :
           jobs[a].createdAt > jobs[b].createdAt
             => /\ Place(local[w].jobs, a) < Place(local[w].jobs, b)
                /\ Place(q, a) < Place(q, b)

C11_Witness ==
  \E w \in Workers :
    /\ SpatialPageRead(w)
    /\ \E q \in FallbackPages(w) :
         \E a, b \in InBoth(local[w].jobs, q) :
           jobs[a].createdAt > jobs[b].createdAt

\* the request of w is an update whose body carries a status outside the enum
BadStatusUpdate(r) ==
  /\ ~IsNull(r) /\ r.op = "updateJob"
  /\ Has(r.body, "status") /\ r.body.status \notin StatusEnum

\* C12: every stored job's status is one of open, accepted, completed,
\* cancelled: a job that enters the store has status open, and no step of an
\* update request whose body carries a status outside the set changes the store
\* or answers with success.
C12_StatusInEnum ==
  [][ /\ \A id \in JobIds :
           ~IsNull(jobs'[id]) => jobs'[id].status \in StatusEnum
      /\ \A id \in JobIds :
           (IsNull(jobs[id]) /\ ~IsNull(jobs'[id])) => jobs'[id].status = "open"
      /\ \A w \in Workers :
           (pc'[w] = "done" /\ pc[w] # "done" /\ BadStatusUpdate(req'[w]))
             => jobs' = jobs /\ res'[w].status # 200 ]_vars

C12_Witness ==
  \E w \in Workers :
    /\ Answered(w, "updateJob") /\ BadStatusUpdate(req[w])
    /\ IsValidObjectId(req[w].id) /\ ~IsNull(jobs[req[w].id])
    /\ res[w].status = 500

\* C13: geocodePostcode, given an empty postcode or one of whitespace only,
\* returns no result and requests nothing from the postcode service; given any
\* other string it makes exactly one request.
C13_NoRequestWhenBlank ==
  \A w \in Workers :
    Answered(w, "geocodePostcode")
    => IF Trim(req[w].postcode) = <<>>
       THEN IsNull(res[w]) /\ Len(local[w].requests) = 0
       ELSE Len(local[w].requests) = 1

\* a call with a postcode of whitespace only has been answered
C13_Witness ==
  \E w \in Workers :
    /\ Answered(w, "geocodePostcode")
    /\ req[w].postcode # <<>> /\ Trim(req[w].postcode) = <<>>
    /\ IsNull(res[w])
    /\ local[w].requests = << <<>> >>

\* the delete request of w removed a job that carries an image reference and has
\* told the caller so
DeletedWithImage(w) ==
  /\ Answered(w, "deleteJob") /\ res[w].status = 200
  /\ Has(local[w].job, "imageUrl")

\* C14: when a delete request removes a job that carries an image reference,
\* a release of that image has been requested from the image store by the time
\* the caller is told the deletion succeeded.
C14_ImageReleasedBeforeAnswer ==
  \A w \in Workers :
    DeletedWithImage(w)
    => \E i \in DOMAIN local[w].imageRequests :
         local[w].imageRequests[i] = [release |-> local[w].job.imageUrl]

\* a job with an image reference was deleted and the caller told so, with no
\* request made to the image store
C14_Witness ==
  \E w \in Workers :
    /\ DeletedWithImage(w)
    /\ local[w].imageRequests = <<>>
    /\ IsNull(jobs[req[w].id])

\* the update request of w has been answered after its store write was attempted
WriteAttempted(w) ==
  /\ Answered(w, "updateJob") /\ IsValidObjectId(req[w].id)
  /\ ~IsNull(local[w]) /\ Has(local[w], "updates")

\* C15: an update request on a well-formed identity is answered with NotFound
\* when no job of that identity is in the store as its write is attempted, also
\* when a delete removed the job after the update's lookup, and is answered with
\* success only when a job was written.
C15_NotFoundAtWrite ==
  \A w \in Workers :
    (Answered(w, "updateJob") /\ IsValidObjectId(req[w].id))
    => /\ IsNull(jobs[req[w].id]) => res[w].status = 404
       /\ res[w].status = 200 => ~IsNull(jobs[req[w].id])

\* a delete removed the job between the lookup and the write of an update, and
\* the update was answered with the generic failure
C15_Witness ==
  \E w \in Workers :
    /\ WriteAttempted(w)
    /\ IsNull(jobs[req[w].id]) /\ deleted[req[w].id] > 0
    /\ res[w] = [status |-> 500, message |-> "Failed to update job"]

====
